---- MODULE Spec2Model ----
(***************************************************************************)
(* The acquisition pipeline of download_data.py as a state machine over    *)
(* the filesystem: the fetch-and-cache primitive, the filepart-then-move   *)
(* download, the tar retrieval, the per-split stage machine of             *)
(* __download_dataset and the entry point.  One process, sequential; any   *)
(* I/O step may raise, which ends the run and leaves the disk as it is.    *)
(* The pure functions (the ILSVRC2012 label converter, the weights module) *)
(* are operators, applied to inputs drawn from bounded sets.               *)
(***************************************************************************)
EXTENDS Integers, Sequences, FiniteSets, TLC

\* Number of distinct image filenames an archive may hold.
NumNames == 2

Names == 1..NumNames

(***************************************************************************)
(* Paths                                                                   *)
(***************************************************************************)
Datasets == {"ILSVRC2012", "VOC2012"}

\* data_urls of the VOC2012 call, in dictionary order.
VocSplits == <<"train", "val">>

\* The split names the user's ILSVRC2012_image_urls.p maps (a non-train
\* split: its images lie loose in the archive).
ImagenetSplits == <<"val">>

SplitsOf(dataset) == IF dataset = "VOC2012" THEN VocSplits ELSE ImagenetSplits

Range(s) == {s[i] : i \in DOMAIN s}

datatype_directory(dataset, data_type) == dataset \o "/" \o data_type

SplitKeys ==
    UNION {{datatype_directory(d, s) : s \in Range(SplitsOf(d))} : d \in Datasets}

compressed_directory(dataset, data_type) ==
    datatype_directory(dataset, data_type) \o "_compressed"

annotations_path == "ILSVRC2012/annotations"

\* The targets of __retrieve_tarred_content.
TarDirs ==
    UNION {{compressed_directory(d, s) : s \in Range(SplitsOf(d))} : d \in Datasets}
        \cup {annotations_path}

\* The only url of the program that ends with .tar.gz is the annotations'.
tar_path(local_path) ==
    local_path \o "." \o (IF local_path = annotations_path THEN "tar.gz" ELSE "tar")

\* A download that writes under the final name.
filepart_in_place(local_path) == local_path

filepart_path(local_path) == local_path \o ".filepart"

ModelBuilders == <<"vgg16", "vgg19", "resnet50", "inceptionv3">>

WeightNames == <<"alexnet">> \o ModelBuilders

weights_path(name) == "weights/" \o name \o ".h5"

\* The file the model builder leaves in ~/.keras/models.
find_keras_weights(name) == "~/.keras/models/" \o name

UrlTargets == {weights_path("alexnet")} \cup {tar_path(d) : d \in TarDirs}

KerasTargets == {weights_path(m) : m \in Range(ModelBuilders)}

KerasName(local_path) ==
    CHOOSE m \in Range(ModelBuilders) : weights_path(m) = local_path

Files ==
    UrlTargets \cup {filepart_path(p) : p \in UrlTargets} \cup KerasTargets
        \cup {find_keras_weights(m) : m \in Range(ModelBuilders)}

(***************************************************************************)
(* Values                                                                  *)
(***************************************************************************)
\* What an archive holds: the filenames its annotations label and the
\* image files.
Content == [ann : SUBSET Names, img : SUBSET Names]

NoDir == [exists |-> FALSE, ann |-> {}, img |-> {}]

DirOf(c) == [exists |-> TRUE, ann |-> c.ann, img |-> c.img]

NoTruthsFile == [exists |-> FALSE, ok |-> FALSE, keys |-> {}]

NoImages == [exists |-> FALSE, files |-> {}]

Unbound == [bound |-> FALSE, keys |-> {}]

\* An exception: its kind, the split __download_dataset was at, and the
\* filenames its message names.
NoFailure == [kind |-> "none", split |-> "none", only_images |-> {}, only_truths |-> {}]

Failure(kind) == [NoFailure EXCEPT !.kind = kind]

EmptyDisk ==
    [file |-> [p \in Files |-> "absent"],
     urls |-> "absent",
     dsDir |-> [d \in Datasets |-> FALSE],
     dir |-> [d \in TarDirs |-> NoDir],
     dtDir |-> [k \in SplitKeys |-> FALSE],
     truths |-> [k \in SplitKeys |-> NoTruthsFile],
     images |-> [k \in SplitKeys |-> NoImages]]

VARIABLES
    disk,      \* the filesystem
    remote,    \* what the archive behind each target's url holds
    mpc,       \* position in __main__
    widx,      \* index of the weights file __main__ is at
    fpath,     \* __download_if_needed: local_path
    fpc,       \* __download_if_needed and its retrieve action: position
    rdir,      \* __retrieve_tarred_content: local_path
    rpc,       \* __retrieve_tarred_content: position
    ds,        \* __download_dataset: dataset
    todo,      \* __download_dataset: the splits of data_urls still to visit
    cur,       \* __download_dataset: data_type
    dpc,       \* __download_dataset: position
    truths,    \* __download_dataset: the local variable truths
    tomove,    \* __download_dataset: image_files not yet moved
    events,    \* what the run has done so far for the weights file or split it is at
    failure,   \* the exception that ended the last run
    status,    \* how the last run ended
    snapshot,  \* the disk as the run that follows a successful run found it
    conv,      \* __convert_imagenet2012_truths on its own: the annotations
               \* file, the lines still to read, truths and the position
    wts        \* the weights module: the weights files, a nested
               \* dictionary, the function called, its arguments and result

vars ==
    <<disk, remote, mpc, widx, fpath, fpc, rdir, rpc, ds, todo, cur, dpc,
      truths, tomove, events, failure, status, snapshot, conv, wts>>

fetchVars == <<fpath, fpc>>

retrVars == <<rdir, rpc>>

dsVars == <<ds, todo, cur, dpc, truths, tomove>>

mainVars == <<mpc, widx>>

\* The state of the functions that are called on their own.
libVars == <<conv, wts>>

\* What a step inside a run leaves alone.
histVars == <<failure, status, snapshot, libVars>>

Event(op, path) == [op |-> op, path |-> path]

Log(op, path) == events' = Append(events, Event(op, path))

isfile(path) == disk.file[path] # "absent"

exists(local_path) == disk.dir[local_path].exists

Running == mpc # "idle" \/ dpc # "none"

\* The process has exited: no locals are left.
Exited ==
    /\ mpc' = "idle"
    /\ widx' = 0
    /\ fpath' = "none"
    /\ fpc' = "none"
    /\ rdir' = "none"
    /\ rpc' = "none"
    /\ ds' = "none"
    /\ todo' = <<>>
    /\ cur' = "none"
    /\ dpc' = "none"
    /\ truths' = Unbound
    /\ tomove' = {}
    /\ events' = <<>>
    /\ UNCHANGED libVars

\* An uncaught exception: nothing catches it, the run ends.
Raise(f) ==
    /\ Exited
    /\ failure' = [f EXCEPT !.split = IF cur = "none" THEN "none"
                                       ELSE datatype_directory(ds, cur)]
    /\ status' = "failed"
    /\ UNCHANGED <<remote, snapshot>>

(***************************************************************************)
(* __download_if_needed and its two retrieve actions                       *)
(***************************************************************************)
\* A fetch that ignores what is on disk.
download_always(local_path) == TRUE

\* A fetch that takes a left-over .filepart for the file.
download_unless_filepart(local_path) ==
    /\ ~isfile(local_path)
    /\ local_path \in UrlTargets => ~isfile(filepart_path(local_path))

download_needed(local_path) == ~isfile(local_path)

\* A move that does nothing.
moved_nothing(file, src, dst) == file

\* shutil.move of a file onto a path.
Moved(file, src, dst) ==
    IF src = dst THEN file ELSE [file EXCEPT ![dst] = file[src], ![src] = "absent"]

\* Lines 26-31, up to the call of retrieve: the caller's step.  evs is the
\* caller's log.
download_if_needed(local_path, evs) ==
    /\ fpath' = local_path
    /\ IF download_needed(local_path)
       THEN /\ events' = Append(evs, Event("retrieve", local_path))
            /\ fpc' = IF local_path \in UrlTargets THEN "urlretrieve" ELSE "build"
       ELSE /\ events' = Append(evs, Event("not_downloading", local_path))
            /\ fpc' = "done"

\* urlretrieve opens the file it writes, truncating what was there.
UrlretrieveOpen ==
    /\ fpc = "urlretrieve"
    /\ disk' = [disk EXCEPT !.file[filepart_path(fpath)] = "partial"]
    /\ fpc' = "writing"
    /\ Log("urlretrieve", fpath)
    /\ UNCHANGED <<remote, fpath, mainVars, retrVars, dsVars, histVars>>

UrlretrieveDone ==
    /\ fpc = "writing"
    /\ disk' = [disk EXCEPT !.file[filepart_path(fpath)] = "complete"]
    /\ fpc' = "move"
    /\ UNCHANGED <<remote, fpath, mainVars, retrVars, dsVars, events, histVars>>

MoveFilepart ==
    /\ fpc = "move"
    /\ disk' = [disk EXCEPT !.file = Moved(@, filepart_path(fpath), fpath)]
    /\ fpc' = "done"
    /\ UNCHANGED <<remote, fpath, mainVars, retrVars, dsVars, events, histVars>>

\* model_builder(weights='imagenet') leaves the weights in ~/.keras/models.
KerasBuild ==
    /\ fpc = "build"
    /\ disk' = [disk EXCEPT !.file[find_keras_weights(KerasName(fpath))] = "complete"]
    /\ fpc' = "find"
    /\ Log("model_builder", fpath)
    /\ UNCHANGED <<remote, fpath, mainVars, retrVars, dsVars, histVars>>

KerasMove ==
    /\ fpc = "find"
    /\ isfile(find_keras_weights(KerasName(fpath)))
    /\ disk' = [disk EXCEPT
                  !.file = Moved(@, find_keras_weights(KerasName(fpath)), fpath)]
    /\ fpc' = "done"
    /\ UNCHANGED <<remote, fpath, mainVars, retrVars, dsVars, events, histVars>>

(***************************************************************************)
(* __retrieve_tarred_content and __extract_tar                             *)
(***************************************************************************)
\* A skip check that also wants the archive gone.
retrieve_skipped_unless_tar(local_path) ==
    exists(local_path) /\ ~isfile(tar_path(local_path))

retrieve_skipped(local_path) == exists(local_path)

\* An extraction that writes nothing.
extracted_nothing(c) == NoDir

\* extractall creates the target directory with the first member it
\* extracts: an archive without members leaves no directory.
Extracted(c) == IF c.ann = {} /\ c.img = {} THEN NoDir ELSE DirOf(c)

RetrieveCheck ==
    /\ rpc = "check"
    /\ IF retrieve_skipped(rdir)
       THEN /\ Log("not_downloading", rdir)
            /\ rpc' = "done"
            /\ UNCHANGED fetchVars
       ELSE /\ rpc' = "download"
            /\ download_if_needed(tar_path(rdir), events)
    /\ UNCHANGED <<disk, remote, rdir, mainVars, dsVars, histVars>>

ExtractTar ==
    /\ rpc = "download"
    /\ fpc = "done"
    /\ disk.file[tar_path(rdir)] = "complete"
    /\ disk' = [disk EXCEPT !.dir[rdir] = Extracted(remote[rdir])]
    /\ Log("extract", rdir)
    /\ rpc' = "remove"
    /\ fpath' = "none"
    /\ fpc' = "none"
    /\ UNCHANGED <<remote, rdir, mainVars, dsVars, histVars>>

\* The first n members of an archive: the annotations come before the
\* images, each in the order of the names.
Members(c, n) ==
    [ann |-> {x \in c.ann : Cardinality({y \in c.ann : y <= x}) <= n},
     img |-> {x \in c.img :
                Cardinality(c.ann) + Cardinality({y \in c.img : y <= x}) <= n}]

Size(c) == Cardinality(c.ann) + Cardinality(c.img)

\* extractall raises part-way: the members extracted so far stay, and so
\* does the archive.
ExtractTarFails ==
    /\ rpc = "download"
    /\ fpc = "done"
    /\ \E n \in 0..Size(remote[rdir]) :
          /\ n < Size(remote[rdir]) \/ disk.file[tar_path(rdir)] # "complete"
          /\ disk' = [disk EXCEPT !.dir[rdir] = Extracted(Members(remote[rdir], n))]
    /\ Raise(Failure("io"))

RemoveTar ==
    /\ rpc = "remove"
    /\ disk' = [disk EXCEPT !.file[tar_path(rdir)] = "absent"]
    /\ Log("remove", rdir)
    /\ rpc' = "done"
    /\ UNCHANGED <<remote, rdir, fetchVars, mainVars, dsVars, histVars>>

(***************************************************************************)
(* __download_dataset                                                      *)
(***************************************************************************)
Key == datatype_directory(ds, cur)

\* A skip check that never finds a split done.
split_never_done(k) == FALSE

\* A skip check with "or" for "and".
split_done_either(k) == disk.truths[k].exists \/ disk.images[k].exists

\* Line 69: the split counts as done.
split_done(k) == disk.truths[k].exists /\ disk.images[k].exists

\* Lines 63-64: the call, up to the for loop.
StartCall(dataset, data_urls) ==
    /\ ds' = dataset
    /\ todo' = data_urls
    /\ cur' = "none"
    /\ dpc' = "loop"
    /\ truths' = Unbound
    /\ tomove' = {}
    /\ disk' = [disk EXCEPT !.dsDir[dataset] = TRUE]

\* The head of the for loop with the skip check; the archive stage starts
\* with the call of __retrieve_tarred_content.
SplitLoop ==
    /\ dpc = "loop"
    /\ IF todo = <<>>
       THEN /\ dpc' = "returned"
            /\ cur' = "none"
            /\ UNCHANGED <<todo, retrVars, events>>
       ELSE /\ cur' = Head(todo)
            /\ todo' = Tail(todo)
            /\ IF split_done(datatype_directory(ds, Head(todo)))
               THEN /\ events' = <<Event("skip", datatype_directory(ds, Head(todo)))>>
                    /\ dpc' = "loop"
                    /\ UNCHANGED retrVars
               ELSE /\ events' =
                          <<Event("retrieving", datatype_directory(ds, Head(todo)))>>
                    /\ dpc' = "archive"
                    /\ rdir' = compressed_directory(ds, Head(todo))
                    /\ rpc' = "check"
    /\ UNCHANGED <<disk, remote, mainVars, fetchVars, ds, truths, tomove, histVars>>

\* A truths stage without the check of line 77: it converts whether or not
\* the truths file is there.
TruthsStageAlways ==
    /\ dpc = "archive"
    /\ rpc = "done"
    /\ Log("convert_truths", Key)
    /\ IF ds = "ILSVRC2012"
       THEN /\ dpc' = "annotations"
            /\ rdir' = annotations_path
            /\ rpc' = "check"
       ELSE /\ dpc' = "convert"
            /\ rdir' = "none"
            /\ rpc' = "none"
    /\ UNCHANGED <<disk, remote, mainVars, fetchVars, ds, todo, cur, truths, tomove,
                   histVars>>

\* Lines 77-81: the truths stage is skipped, or convert_truths is called;
\* the ILSVRC2012 converter first retrieves the annotations.
TruthsStage ==
    /\ dpc = "archive"
    /\ rpc = "done"
    /\ IF disk.truths[Key].exists
       THEN /\ Log("skip_truths", Key)
            /\ dpc' = "images"
            /\ rdir' = "none"
            /\ rpc' = "none"
       ELSE /\ Log("convert_truths", Key)
            /\ IF ds = "ILSVRC2012"
               THEN /\ dpc' = "annotations"
                    /\ rdir' = annotations_path
                    /\ rpc' = "check"
               ELSE /\ dpc' = "convert"
                    /\ rdir' = "none"
                    /\ rpc' = "none"
    /\ UNCHANGED <<disk, remote, mainVars, fetchVars, ds, todo, cur, truths, tomove,
                   histVars>>

\* The directory the converter reads the annotations from.
truths_source == IF ds = "ILSVRC2012" THEN annotations_path
                 ELSE compressed_directory(ds, cur)

\* __convert_voc_truths / __convert_imagenet2012_truths, and line 82.
ConvertTruths ==
    /\ \/ dpc = "convert"
       \/ dpc = "annotations" /\ rpc = "done"
    /\ IF ~exists(truths_source)
       THEN Raise(Failure("no annotations")) /\ UNCHANGED disk
       ELSE IF disk.dir[truths_source].ann = {}
       THEN Raise(Failure("No truths converted")) /\ UNCHANGED disk
       ELSE /\ truths' = [bound |-> TRUE, keys |-> disk.dir[truths_source].ann]
            /\ dpc' = "dump"
            /\ rdir' = "none"
            /\ rpc' = "none"
            /\ UNCHANGED <<disk, remote, mainVars, fetchVars, ds, todo, cur, tomove,
                           events, histVars>>

\* Lines 83-84.
DumpTruths ==
    /\ dpc = "dump"
    /\ disk' = [disk EXCEPT
                  !.dtDir[Key] = TRUE,
                  !.truths[Key] = [exists |-> TRUE, ok |-> TRUE, keys |-> truths.keys]]
    /\ dpc' = "images"
    /\ UNCHANGED <<remote, mainVars, fetchVars, retrVars, ds, todo, cur, truths,
                   tomove, events, histVars>>

\* Lines 83-84 raise: open() may have created the file that pickle.dump
\* then fails to fill.
DumpTruthsFails ==
    /\ dpc = "dump"
    /\ \E created \in BOOLEAN :
          disk' = [disk EXCEPT
                     !.dtDir[Key] = TRUE,
                     !.truths[Key] = IF created
                                     THEN [exists |-> TRUE, ok |-> FALSE, keys |-> {}]
                                     ELSE NoTruthsFile]
    /\ Raise(Failure("io"))

\* The image-collection callback: the image files of the staging directory.
collect_image_files(directory) ==
    IF exists(directory) THEN disk.dir[directory].img ELSE {}

\* The assertions without the comparison of the two sets.
check_images_counts_only(image_files, t) ==
    IF image_files = {} THEN Failure("No images found")
    ELSE IF ~t.bound THEN Failure("UnboundLocalError")
    ELSE IF Cardinality(image_files) # Cardinality(t.keys)
    THEN Failure("Number of images differs from truths")
    ELSE NoFailure

\* Lines 92-99: the assertions on image_files and truths, as the failure
\* they raise.
check_images(image_files, t) ==
    IF image_files = {} THEN Failure("No images found")
    ELSE IF ~t.bound THEN Failure("UnboundLocalError")
    ELSE IF Cardinality(image_files) # Cardinality(t.keys)
    THEN Failure("Number of images differs from truths")
    ELSE IF image_files \ t.keys # {} \/ t.keys \ image_files # {}
    THEN [Failure("image files and truths keys differ") EXCEPT
            !.only_images = image_files \ t.keys,
            !.only_truths = t.keys \ image_files]
    ELSE NoFailure

\* Lines 87-100.
ImagesStage ==
    /\ dpc = "images"
    /\ IF disk.images[Key].exists
       THEN /\ Log("skip_images", Key)
            /\ dpc' = "loop"
            /\ UNCHANGED <<disk, remote, mainVars, fetchVars, retrVars, ds, todo, cur,
                           truths, tomove, histVars>>
       ELSE LET image_files == collect_image_files(compressed_directory(ds, cur))
                f == check_images(image_files, truths)
            IN  IF f # NoFailure
                THEN Raise(f) /\ UNCHANGED disk
                ELSE    /\ Log("collect_image_files", Key)
                        /\ disk' = [disk EXCEPT
                                      !.images[Key] = [exists |-> TRUE, files |-> {}]]
                        /\ tomove' = image_files
                        /\ dpc' = "moving"
                        /\ UNCHANGED <<remote, mainVars, fetchVars, retrVars, ds, todo,
                                       cur, truths, histVars>>

\* Lines 101-103, one shutil.move; glob gives the files in no known order.
MoveImage ==
    /\ dpc = "moving"
    /\ \E image_file \in tomove :
          /\ disk' = [disk EXCEPT
                        !.images[Key].files = @ \cup {image_file},
                        !.dir[compressed_directory(ds, cur)].img = @ \ {image_file}]
          /\ tomove' = tomove \ {image_file}
    /\ UNCHANGED <<remote, mainVars, fetchVars, retrVars, ds, todo, cur, dpc, truths,
                   events, histVars>>

\* Line 104.
Rmtree ==
    /\ dpc = "moving"
    /\ tomove = {}
    /\ disk' = [disk EXCEPT !.dir[compressed_directory(ds, cur)] = NoDir]
    /\ Log("rmtree", compressed_directory(ds, cur))
    /\ dpc' = "loop"
    /\ UNCHANGED <<remote, mainVars, fetchVars, retrVars, ds, todo, cur, truths,
                   tomove, histVars>>

\* A system call raises (network, disk, permissions) and has changed nothing.
IOFails ==
    /\ \/ fpc \in {"urlretrieve", "writing", "move", "build", "find"}
       \/ rpc = "remove"
       \/ dpc \in {"convert", "moving"}
       \/ dpc = "images" /\ ~disk.images[datatype_directory(ds, cur)].exists
    /\ Raise(Failure("io"))
    /\ UNCHANGED disk

(***************************************************************************)
(* __main__                                                                *)
(***************************************************************************)
NoSnapshot == [valid |-> FALSE, disk |-> EmptyDisk]

\* A run starts: the log is the new run's, and a run that follows a
\* successful one remembers the disk it found.
Begin ==
    /\ failure' = NoFailure
    /\ snapshot' = IF status = "ok" THEN [valid |-> TRUE, disk |-> disk] ELSE NoSnapshot
    /\ status' = "running"
    /\ UNCHANGED libVars

MainStart ==
    /\ ~Running
    /\ Begin
    /\ mpc' = "weights"
    /\ widx' = 1
    /\ download_if_needed(weights_path(WeightNames[1]), <<>>)
    /\ UNCHANGED <<disk, remote, retrVars, dsVars>>

\* Lines 161-166: the next call of __download_if_needed, once the one
\* before has returned.
MainNextWeights ==
    /\ mpc = "weights"
    /\ fpc = "done"
    /\ IF widx < Len(WeightNames)
       THEN /\ widx' = widx + 1
            /\ download_if_needed(weights_path(WeightNames[widx + 1]), <<>>)
            /\ mpc' = mpc
       ELSE /\ widx' = 0
            /\ fpath' = "none"
            /\ fpc' = "none"
            /\ mpc' = "urls"
            /\ events' = <<>>
    /\ UNCHANGED <<disk, remote, retrVars, dsVars, histVars>>

\* Lines 169-180.
MainLoadUrls ==
    /\ mpc = "urls"
    /\ IF disk.urls = "absent"
       THEN Raise(Failure("FileNotFoundError")) /\ UNCHANGED disk
       ELSE /\ IF disk.urls = "empty"
               THEN /\ Log("warning", "ILSVRC2012")
                    /\ mpc' = "voc"
                    /\ StartCall("VOC2012", VocSplits)
               ELSE /\ mpc' = "imagenet"
                    /\ StartCall("ILSVRC2012", ImagenetSplits)
                    /\ UNCHANGED events
            /\ UNCHANGED <<remote, widx, fetchVars, retrVars, histVars>>

MainCallVoc ==
    /\ mpc = "imagenet"
    /\ dpc = "returned"
    /\ mpc' = "voc"
    /\ StartCall("VOC2012", VocSplits)
    /\ UNCHANGED <<remote, widx, fetchVars, retrVars, events, histVars>>

MainExit ==
    /\ mpc = "voc"
    /\ dpc = "returned"
    /\ Exited
    /\ status' = "ok"
    /\ UNCHANGED <<disk, remote, failure, snapshot>>

(***************************************************************************)
(* __download_dataset called on its own, with any data_urls                *)
(***************************************************************************)
DataUrls ==
    {<<s>> : s \in Range(VocSplits)}
        \cup ({<<s, t>> : s, t \in Range(VocSplits)}
                 \ {<<s, s>> : s \in Range(VocSplits)})

CallDataset ==
    /\ ~Running
    /\ Begin
    /\ \E data_urls \in DataUrls : StartCall("VOC2012", data_urls)
    /\ UNCHANGED <<remote, mainVars, fetchVars, retrVars, events>>

CallReturns ==
    /\ mpc = "idle"
    /\ dpc = "returned"
    /\ Exited
    /\ status' = "ok"
    /\ UNCHANGED <<disk, remote, failure, snapshot>>

(***************************************************************************)
(* __convert_imagenet2012_truths on an annotations file                    *)
(***************************************************************************)
\* Length of the longest annotations file, in characters.
MaxTextLen == 8

\* A text is a sequence of characters: letters and digits of filenames and
\* labels, the space and the newline.
Chars == {"a", "5", " ", "\n"}

Texts == UNION {[1..n -> Chars] : n \in 0..MaxTextLen}

\* The index of the first c of s, 0 if there is none.
find(s, c) ==
    IF \E i \in 1..Len(s) : s[i] = c
    THEN CHOOSE i \in 1..Len(s) : s[i] = c /\ \A j \in 1..(i - 1) : s[j] # c
    ELSE 0

RECURSIVE readlines(_)
\* file.readlines(): the lines of the text, each with its newline; the last
\* line has none if the text does not end with one.
readlines(text) ==
    IF text = <<>> THEN <<>>
    ELSE IF find(text, "\n") = 0 THEN <<text>>
    ELSE <<SubSeq(text, 1, find(text, "\n"))>>
            \o readlines(SubSeq(text, find(text, "\n") + 1, Len(text)))

RECURSIVE split(_, _)
\* str.split(sep): the pieces of s between the occurrences of sep.
split(s, sep) ==
    IF find(s, sep) = 0 THEN <<s>>
    ELSE <<SubSeq(s, 1, find(s, sep) - 1)>>
            \o split(SubSeq(s, find(s, sep) + 1, Len(s)), sep)

\* truths[filename] = truth
SetItem(t, key, value) ==
    [k \in DOMAIN t \cup {key} |-> IF k = key THEN value ELSE t[k]]

NoConvert == [text |-> <<>>, lines |-> <<>>, truths |-> <<>>, pc |-> "none"]

\* Lines 142-144: truths = {} and the lines of the opened file.
ConvertOpen ==
    /\ conv.pc = "open"
    /\ conv' = [conv EXCEPT !.lines = readlines(conv.text), !.pc = "reading"]
    /\ UNCHANGED <<disk, remote, mainVars, fetchVars, retrVars, dsVars, events,
                   failure, status, snapshot, wts>>

\* Lines 145-146 for the next line: the unpacking of the split raises
\* ValueError unless the line has exactly one space.
ConvertLine ==
    /\ conv.pc = "reading"
    /\ conv.lines # <<>>
    /\ LET parts == split(Head(conv.lines), " ")
       IN  IF Len(parts) # 2
           THEN conv' = [conv EXCEPT !.pc = "ValueError"]
           ELSE conv' = [conv EXCEPT !.lines = Tail(@),
                                     !.truths = SetItem(@, parts[1], parts[2])]
    /\ UNCHANGED <<disk, remote, mainVars, fetchVars, retrVars, dsVars, events,
                   failure, status, snapshot, wts>>

\* Line 147.
ConvertReturn ==
    /\ conv.pc = "reading"
    /\ conv.lines = <<>>
    /\ conv' = [conv EXCEPT !.pc = "returned"]
    /\ UNCHANGED <<disk, remote, mainVars, fetchVars, retrVars, dsVars, events,
                   failure, status, snapshot, wts>>

(***************************************************************************)
(* weights/__init__.py: load_weights, walk, walk_key_chain                 *)
(***************************************************************************)
\* Depth of the deepest nested dictionary.
MaxDepth == 2

Keys == {"a", "b"}

\* A leaf is an h5py dataset or a plain value: it has no items().
Leaf(value) == [kind |-> "leaf", value |-> value]

\* An h5py group or file: items() gives its entries.
Group(entries) == [kind |-> "group", items |-> entries]

\* A python dict.
Dict(entries) == [kind |-> "dict", items |-> entries]

\* A python list.
List(elements) == [kind |-> "list", items |-> elements]

Exception(kind) == [kind |-> kind]

Leaves == {Leaf(15)}

\* The groups whose entries are nodes of the given set.
Groups(nodes) == {Group(f) : f \in UNION {[K -> nodes] : K \in SUBSET Keys}}

RECURSIVE Nodes(_)
Nodes(depth) ==
    IF depth = 0 THEN Leaves ELSE Leaves \cup Groups(Nodes(depth - 1))

Dictionaries == Groups(Nodes(MaxDepth - 1))

\* Key chains, also longer than the dictionary is deep.
KeyChains == UNION {[1..n -> Keys] : n \in 0..(MaxDepth + 1)}

\* key_chain=None; no key is called None.
None == <<"None">>

\* The per-leaf functions: load_weights' lambda _, x: np.array(x), and one
\* that returns its two arguments.
Collectors == {"np.array", "arguments"}

Collect(collect, key_chain, item) ==
    IF collect = "np.array" THEN [kind |-> "array", value |-> item.value]
    ELSE [kind |-> "collected", key_chain |-> key_chain, item |-> item]

\* Line 21: callable(getattr(item, "items", None))
has_items(item) == item.kind \in {"group", "dict"}

\* A walk that forgets the chain above the key.
sub_key_chain_reset(key_chain, key) == <<key>>

\* Line 20.
sub_key_chain(key_chain, key) ==
    (IF key_chain # None THEN key_chain ELSE <<>>) \o <<key>>

RECURSIVE walk(_, _, _)
walk(dictionary, collect, key_chain) ==
    Dict([key \in DOMAIN dictionary.items |->
            IF has_items(dictionary.items[key])
            THEN walk(dictionary.items[key], collect, sub_key_chain(key_chain, key))
            ELSE Collect(collect, sub_key_chain(key_chain, key), dictionary.items[key])])

IsException(x) == x.kind \in {"KeyError", "TypeError", "IndexError", "OSError"}

\* An indexing that answers None for an absent key, as dict.get does.
getitem_or_none(d, k) ==
    IF has_items(d)
    THEN IF k \in DOMAIN d.items THEN d.items[k] ELSE [kind |-> "None"]
    ELSE IF d.kind = "array" THEN Exception("IndexError")
    ELSE Exception("TypeError")

\* d[k]: a mapping raises KeyError for a key it does not have; a number
\* is not subscriptable (TypeError) and a numeric array takes no name as
\* index (IndexError).
getitem(d, k) ==
    IF has_items(d)
    THEN IF k \in DOMAIN d.items THEN d.items[k] ELSE Exception("KeyError")
    ELSE IF d.kind = "array" THEN Exception("IndexError")
    ELSE Exception("TypeError")

RECURSIVE walk_key_chain(_, _)
\* Line 43: reduce applies d[k] to the dictionary and the first key, then to
\* what that gives and the next key, and so on; an exception ends it.
walk_key_chain(dictionary, key_chain) ==
    IF key_chain = <<>> \/ IsException(dictionary) THEN dictionary
    ELSE walk_key_chain(getitem(dictionary, Head(key_chain)), Tail(key_chain))

H5Names == {"alexnet", "vgg16"}

\* load_weights(*weights_names): no name, one, two, also the same twice.
WeightsNames == UNION {[1..n -> H5Names] : n \in 0..2}

Absent == [kind |-> "absent"]

\* What a weights file may hold.
WeightsFiles == [{weights_path(n) : n \in H5Names} -> Groups(Leaves) \cup {Absent}]

\* Lines 8-14; h5py.File raises OSError for a file that is not there.
load_weights(files, weights_names) ==
    LET weights == [i \in 1..Len(weights_names) |->
                      IF files[weights_path(weights_names[i])] = Absent
                      THEN Exception("OSError")
                      ELSE walk(files[weights_path(weights_names[i])], "np.array", None)]
    IN  IF \E i \in 1..Len(weights) : IsException(weights[i])
        THEN Exception("OSError")
        ELSE IF Len(weights) > 1 THEN List(weights)
        ELSE IF Len(weights) = 0 THEN Exception("IndexError")
        ELSE weights[1]

NoCall == [op |-> "none", on |-> <<>>, arg |-> <<>>, result |-> <<>>]

\* Nothing of the pipeline moves while the weights module is called.
PipelineUnchanged ==
    UNCHANGED <<disk, remote, mainVars, fetchVars, retrVars, dsVars, events,
                failure, status, snapshot, conv>>

\* walk(dictionary, collect)
Walk ==
    /\ wts.call.op = "none"
    /\ \E collect \in Collectors :
          wts' = [wts EXCEPT !.call =
                    [op |-> "walk", on |-> wts.dictionary, arg |-> collect,
                     result |-> walk(wts.dictionary, collect, None)]]
    /\ PipelineUnchanged

\* walk_key_chain(dictionary, key_chain), on the nested dictionary as it
\* is or as walk has loaded it.
WalkKeyChain ==
    /\ wts.call.op = "none"
    /\ \E key_chain \in KeyChains :
       \E d \in {wts.dictionary, walk(wts.dictionary, "np.array", None)} :
          wts' = [wts EXCEPT !.call =
                    [op |-> "walk_key_chain", on |-> d, arg |-> key_chain,
                     result |-> walk_key_chain(d, key_chain)]]
    /\ PipelineUnchanged

\* load_weights(*weights_names)
LoadWeights ==
    /\ wts.call.op = "none"
    /\ \E weights_names \in WeightsNames :
          wts' = [wts EXCEPT !.call =
                    [op |-> "load_weights", on |-> wts.files, arg |-> weights_names,
                     result |-> load_weights(wts.files, weights_names)]]
    /\ PipelineUnchanged

\* The call has returned or raised; the next call starts.
WeightsReturn ==
    /\ wts.call.op # "none"
    /\ wts' = [wts EXCEPT !.call = NoCall]
    /\ PipelineUnchanged

NoWeights ==
    [files |-> [p \in {weights_path(n) : n \in H5Names} |-> Absent],
     dictionary |-> Group(<<>>), call |-> NoCall]

(***************************************************************************)
(* Specifications                                                          *)
(***************************************************************************)
Idle ==
    /\ mpc = "idle"
    /\ widx = 0
    /\ fpath = "none"
    /\ fpc = "none"
    /\ rdir = "none"
    /\ rpc = "none"
    /\ ds = "none"
    /\ todo = <<>>
    /\ cur = "none"
    /\ dpc = "none"
    /\ truths = Unbound
    /\ tomove = {}
    /\ events = <<>>
    /\ failure = NoFailure
    /\ status = "fresh"
    /\ snapshot = NoSnapshot

NoContent == [ann |-> {}, img |-> {}]

\* No function is being called on its own.
LibIdle == conv = NoConvert /\ wts = NoWeights

\* The entry point on a disk that holds at most the user's
\* ILSVRC2012_image_urls.p.  Both VOC2012 splits name the same url; the
\* ILSVRC2012 archive holds images and the caffe archive the annotations.
Init ==
    /\ Idle
    /\ LibIdle
    /\ \E u \in {"absent", "empty", "urls"} : disk = [EmptyDisk EXCEPT !.urls = u]
    /\ \E voc \in Content, img, ann \in SUBSET Names :
          /\ disk.urls # "urls" => img = {} /\ ann = {}
          /\ remote = [d \in TarDirs |->
                         IF d = annotations_path THEN [ann |-> ann, img |-> {}]
                         ELSE IF d = compressed_directory("ILSVRC2012", "val")
                         THEN [ann |-> {}, img |-> img]
                         ELSE voc]

Fetch ==
    \/ UrlretrieveOpen
    \/ UrlretrieveDone
    \/ MoveFilepart

Retrieve ==
    \/ RetrieveCheck
    \/ ExtractTar
    \/ ExtractTarFails
    \/ RemoveTar

Dataset ==
    \/ SplitLoop
    \/ TruthsStage
    \/ ConvertTruths
    \/ DumpTruths
    \/ DumpTruthsFails
    \/ ImagesStage
    \/ MoveImage
    \/ Rmtree

Next ==
    \/ MainStart
    \/ MainNextWeights
    \/ MainLoadUrls
    \/ MainCallVoc
    \/ MainExit
    \/ KerasBuild
    \/ KerasMove
    \/ Fetch
    \/ Retrieve
    \/ Dataset
    \/ IOFails

Spec == Init /\ [][Next]_vars

\* __download_dataset alone, each split with an archive of its own.
InitDataset ==
    /\ Idle
    /\ LibIdle
    /\ disk = EmptyDisk
    /\ \E train, val \in Content :
          remote = [d \in TarDirs |->
                      IF d = compressed_directory("VOC2012", "train") THEN train
                      ELSE IF d = compressed_directory("VOC2012", "val") THEN val
                      ELSE NoContent]

NextDataset ==
    \/ CallDataset
    \/ CallReturns
    \/ Fetch
    \/ Retrieve
    \/ Dataset
    \/ IOFails

SpecDataset == InitDataset /\ [][NextDataset]_vars

\* No run of the pipeline: the disk is empty and stays so.
NoPipeline ==
    /\ Idle
    /\ disk = EmptyDisk
    /\ remote = [d \in TarDirs |-> NoContent]

\* __convert_imagenet2012_truths on any annotations file, once the
\* annotations are retrieved.
InitConvert ==
    /\ NoPipeline
    /\ \E text \in Texts : conv = [NoConvert EXCEPT !.text = text, !.pc = "open"]
    /\ wts = NoWeights

NextConvert ==
    \/ ConvertOpen
    \/ ConvertLine
    \/ ConvertReturn

SpecConvert == InitConvert /\ [][NextConvert]_vars

\* The weights module on any weights files, or on any nested dictionary:
\* load_weights reads only the files, walk and walk_key_chain only the
\* dictionary.
InitWeights ==
    /\ NoPipeline
    /\ conv = NoConvert
    /\ \E files \in WeightsFiles, dictionary \in Dictionaries :
          /\ files = NoWeights.files \/ dictionary = NoWeights.dictionary
          /\ wts = [files |-> files, dictionary |-> dictionary, call |-> NoCall]

NextWeights ==
    \/ Walk
    \/ WalkKeyChain
    \/ LoadWeights
    \/ WeightsReturn

SpecWeights == InitWeights /\ [][NextWeights]_vars

(***************************************************************************)
(* Properties                                                              *)
(***************************************************************************)
Logged(op, path) == Event(op, path) \in Range(events)

WellFormed(c) == c.ann = c.img /\ c.img # {}

\* C1: between runs, every completed split (truths file and images
\* directory both exist) has exactly the keys of its persisted ground-truth
\* mapping as the filenames of its images directory.
C1_SetEquality ==
    ~Running =>
        \A k \in SplitKeys :
            split_done(k) => disk.images[k].files = disk.truths[k].keys

\* The images stage is about to compare the image files it collects with
\* the keys of the truths it holds, and they differ.
ImagesMismatch ==
    /\ dpc = "images"
    /\ ~disk.images[Key].exists
    /\ truths.bound
    /\ collect_image_files(compressed_directory(ds, cur)) # truths.keys

\* C2 as stated: a mismatch between a non-empty list of image files and
\* the truths keys ends the run with a failure that names the filenames of
\* each one-sided difference (unless collecting the images itself raises),
\* and the disk is left as it was.
C2_MismatchNamesFiles ==
    [][(ImagesMismatch /\ collect_image_files(compressed_directory(ds, cur)) # {})
         => /\ status' = "failed"
            /\ disk' = disk
            /\ \/ failure'.kind = "io"
               \/ /\ failure'.kind = "image files and truths keys differ"
                  /\ failure'.only_images =
                        collect_image_files(compressed_directory(ds, cur)) \ truths.keys
                  /\ failure'.only_truths =
                        truths.keys \ collect_image_files(compressed_directory(ds, cur))]_vars

\* C2 amended: a mismatch between the image files and the truths keys ends
\* the run with a failure and leaves the disk as it was (no image moved, no
\* images directory, the staging directory kept); the failure names the
\* filenames of each one-sided difference exactly when the list of images
\* is not empty and as long as the truths, says "No images found" for an
\* empty list and gives only the two counts when the sizes differ.
C2_MismatchFails ==
    [][ImagesMismatch
         => LET image_files == collect_image_files(compressed_directory(ds, cur))
            IN  /\ status' = "failed"
                /\ disk' = disk
                /\ \/ failure'.kind = "io"
                   \/ /\ image_files = {}
                      /\ failure' = [Failure("No images found") EXCEPT !.split = Key]
                   \/ /\ image_files # {}
                      /\ Cardinality(image_files) # Cardinality(truths.keys)
                      /\ failure' = [Failure("Number of images differs from truths")
                                       EXCEPT !.split = Key]
                   \/ /\ image_files # {}
                      /\ Cardinality(image_files) = Cardinality(truths.keys)
                      /\ failure'.kind = "image files and truths keys differ"
                      /\ failure'.only_images = image_files \ truths.keys
                      /\ failure'.only_truths = truths.keys \ image_files]_vars

\* A run has ended on a mismatch of equally many images and truths, the
\* failure naming both one-sided differences, with nothing moved.
C2_Witness ==
    /\ status = "failed"
    /\ failure.kind = "image files and truths keys differ"
    /\ failure.only_images # {}
    /\ failure.only_truths # {}
    /\ ~disk.images[failure.split].exists
    /\ disk.truths[failure.split].exists

\* C3: a run of the entry point that follows a successful run does nothing
\* but skip (no retrieval, download, extraction, conversion or move), does
\* not fail, and leaves the disk as it found it.
C3_Idempotent ==
    snapshot.valid =>
        /\ disk = snapshot.disk
        /\ status # "failed"
        /\ \A i \in DOMAIN events :
              events[i].op \in {"not_downloading", "skip", "warning"}

\* The second of two successful runs has ended, with the ILSVRC2012 urls
\* given and every split done.
C3_Witness ==
    /\ snapshot.valid
    /\ status = "ok"
    /\ disk.urls = "urls"
    /\ \A k \in SplitKeys : split_done(k)

\* The states of a split the claim names as left behind by an aborted run,
\* for an archive whose annotations and images agree.
ResumeState(dataset, data_type) ==
    LET k == datatype_directory(dataset, data_type)
        d == compressed_directory(dataset, data_type)
    IN  /\ WellFormed(remote[d])
        /\ ~disk.images[k].exists
        /\ \/ /\ disk.file[tar_path(d)] = "complete"
              /\ ~exists(d)
              /\ ~disk.truths[k].exists
           \/ /\ disk.dir[d] = DirOf(remote[d])
              /\ ~disk.truths[k].exists
           \/ /\ disk.dir[d] = DirOf(remote[d])
              /\ disk.truths[k] =
                    [exists |-> TRUE, ok |-> TRUE, keys |-> remote[d].ann]

\* C4: a run that resumes a split from one of the states an aborted run
\* leaves behind (archive downloaded, staging directory extracted, truths
\* persisted) fails only if an I/O step fails.
C4_Resume ==
    \A s \in Range(VocSplits) :
        (status = "failed" /\ failure.split = datatype_directory("VOC2012", s)
            /\ ResumeState("VOC2012", s))
        => failure.kind = "io"

\* C5: when __download_if_needed has returned the local path exists, and
\* its retrieve action has been invoked only if the path was absent.
C5_FetchAndCache ==
    /\ fpc = "done" => isfile(fpath)
    /\ fpc \in {"urlretrieve", "build"} => ~isfile(fpath) /\ Logged("retrieve", fpath)
    /\ (fpc = "done" /\ Logged("not_downloading", fpath)) => ~Logged("retrieve", fpath)

\* __download_if_needed has returned for a keras weights file that was
\* there already.
C5_Witness ==
    /\ fpc = "done"
    /\ fpath \in KerasTargets
    /\ Logged("not_downloading", fpath)

\* C6: the final path of a download is absent or holds the whole file; the
\* move happens once the .filepart holds the whole file.
C6_AtomicPublish ==
    /\ \A p \in UrlTargets : disk.file[p] \in {"absent", "complete"}
    /\ fpc = "writing" => disk.file[fpath] = "absent"
    /\ fpc = "move" =>
          disk.file[fpath] = "absent" /\ disk.file[fpath \o ".filepart"] = "complete"

\* A download has failed part-way.
C6_Witness ==
    /\ status = "failed"
    /\ \E p \in UrlTargets :
          disk.file[p \o ".filepart"] = "partial" /\ disk.file[p] = "absent"

\* The .filepart of a download is there and the final file is not.
Interrupted(p) == disk.file[p \o ".filepart"] # "absent" /\ disk.file[p] = "absent"

\* C7: a download that raises leaves the final file absent, and
\* __download_if_needed called for a file of which only the .filepart is
\* there invokes the download.
C7_Reattempt ==
    [][/\ (fpc \in {"urlretrieve", "writing"} /\ status' = "failed")
            => disk'.file[fpath] = "absent"
       /\ \A p \in UrlTargets :
            (Interrupted(p) /\ fpath # p /\ fpath' = p)
                => fpc' = "urlretrieve" /\ Logged("retrieve", p)']_vars

\* The download is invoked again while the .filepart of an earlier attempt
\* is still there.
C7_Witness ==
    /\ fpc = "urlretrieve"
    /\ Interrupted(fpath)
    /\ Logged("retrieve", fpath)

\* C8: __retrieve_tarred_content called for a target directory that exists
\* returns at once: nothing is downloaded, extracted or deleted and the
\* disk stays as it is.
C8_RetrieveSkips ==
    [][(rpc = "check" /\ exists(rdir))
         => /\ rpc' = "done"
            /\ disk' = disk
            /\ fpc' = fpc
            /\ events' = Append(events, Event("not_downloading", rdir))]_vars

\* The retrieval was skipped for a directory that holds only a part of its
\* archive, which is still on disk.
C8_Witness ==
    /\ rpc = "done"
    /\ Logged("not_downloading", rdir)
    /\ isfile(tar_path(rdir))
    /\ disk.dir[rdir] # DirOf(remote[rdir])

\* The log holds a before b.
Before(a, b) ==
    \E i, j \in DOMAIN events : i < j /\ events[i] = a /\ events[j] = b

\* __retrieve_tarred_content goes through download, extraction and
\* deletion in this order.
RetrieveOrder ==
    /\ rpc \in {"download", "remove"} => ~Logged("not_downloading", rdir)
    /\ rpc = "download" =>
          /\ fpath = tar_path(rdir)
          /\ ~Logged("extract", rdir)
          /\ ~Logged("remove", rdir)
    /\ rpc = "download" /\ fpc = "done" => disk.file[tar_path(rdir)] = "complete"
    /\ rpc = "remove" =>
          /\ disk.file[tar_path(rdir)] = "complete"
          /\ disk.dir[rdir] = Extracted(remote[rdir])
          /\ ~Logged("remove", rdir)
    /\ Logged("extract", rdir) =>
          \/ Before(Event("retrieve", tar_path(rdir)), Event("extract", rdir))
          \/ Before(Event("not_downloading", tar_path(rdir)), Event("extract", rdir))
    /\ Logged("remove", rdir) => Before(Event("extract", rdir), Event("remove", rdir))

\* C9 as stated: download, extraction and deletion happen in this order,
\* and once __retrieve_tarred_content has returned from them the target
\* directory exists and the archive does not.
C9_RetrieveExtractRemove ==
    /\ rdir # "none" => RetrieveOrder
    /\ (rpc = "done" /\ Logged("remove", rdir))
          => exists(rdir) /\ ~isfile(tar_path(rdir))

\* C9 amended: download, extraction and deletion happen in this order; once
\* __retrieve_tarred_content has returned from them the archive file does
\* not exist, and the target directory exists with the members of the
\* archive if the archive has a member (an archive without members leaves
\* no directory).
C9_RetrieveExtractRemoveMembers ==
    /\ rdir # "none" => RetrieveOrder
    /\ (rpc = "done" /\ Logged("remove", rdir))
          => /\ ~isfile(tar_path(rdir))
             /\ Size(remote[rdir]) > 0 => disk.dir[rdir] = DirOf(remote[rdir])
             /\ Size(remote[rdir]) = 0 => ~exists(rdir)

\* The retrieval has downloaded, extracted and deleted the archive.
C9_Witness ==
    /\ rpc = "done"
    /\ Logged("retrieve", tar_path(rdir))
    /\ Logged("remove", rdir)
    /\ exists(rdir)
    /\ ~isfile(tar_path(rdir))

\* C10: with ILSVRC2012_image_urls.p absent or empty the entry point warns,
\* skips ILSVRC2012 and goes on to VOC2012.
C10_UrlsMissingWarns ==
    [][(mpc = "urls" /\ disk.urls \in {"absent", "empty"})
         => /\ mpc' = "voc"
            /\ ds' = "VOC2012"
            /\ Logged("warning", "ILSVRC2012")']_vars

\* s without the whitespace at its end.
RECURSIVE rstrip(_)
rstrip(s) ==
    IF s # <<>> /\ s[Len(s)] \in {" ", "\n"} THEN rstrip(SubSeq(s, 1, Len(s) - 1))
    ELSE s

\* A line 'filename label' with its newline: one space, between a filename
\* and a label that are not empty.
FilenameLabelLine(line) ==
    /\ Len(line) >= 4
    /\ line[Len(line)] = "\n"
    /\ Cardinality({i \in 1..Len(line) : line[i] = " "}) = 1
    /\ find(line, " ") \in 2..(Len(line) - 2)

\* C11: the converter maps every line 'filename label' with its newline to
\* key = the text before the first space, value = the rest of the line
\* without the newline and whitespace at its end.
C11_ConverterStrips ==
    [][(conv.pc = "reading" /\ conv.lines # <<>> /\ FilenameLabelLine(Head(conv.lines)))
         => LET line == Head(conv.lines)
                filename == SubSeq(line, 1, find(line, " ") - 1)
                label == rstrip(SubSeq(line, find(line, " ") + 1, Len(line)))
            IN  /\ filename \in DOMAIN conv'.truths
                /\ conv'.truths[filename] = label]_vars

RECURSIVE Resolvable(_, _)
\* Every key of the chain is a key of the mapping that the keys before it
\* lead to.
Resolvable(d, key_chain) ==
    \/ key_chain = <<>>
    \/ /\ has_items(d)
       /\ Head(key_chain) \in DOMAIN d.items
       /\ Resolvable(d.items[Head(key_chain)], Tail(key_chain))

RECURSIVE Manual(_, _)
\* d[k1][k2]...[kn], written from the last key backwards.
Manual(d, key_chain) ==
    IF key_chain = <<>> THEN d
    ELSE Manual(d, SubSeq(key_chain, 1, Len(key_chain) - 1)).items[key_chain[Len(key_chain)]]

\* C12: the result of walk has, along every key chain, what the input has:
\* a mapping with the same keys where the input has a group, and
\* collect(key chain, leaf) where the input has a leaf; it has nothing
\* where the input has nothing.
C12_WalkIsomorphic ==
    wts.call.op = "walk" =>
        \A key_chain \in KeyChains :
            /\ Resolvable(wts.call.result, key_chain) <=> Resolvable(wts.call.on, key_chain)
            /\ Resolvable(wts.call.on, key_chain) =>
                  LET node == Manual(wts.call.on, key_chain)
                      out == Manual(wts.call.result, key_chain)
                  IN  IF has_items(node)
                      THEN out.kind = "dict" /\ DOMAIN out.items = DOMAIN node.items
                      ELSE out = Collect(wts.call.arg, key_chain, node)

\* walk has returned for a dictionary with a leaf below a group next to an
\* empty group, the leaf collected with its two keys.
C12_Witness ==
    /\ wts.call.op = "walk"
    /\ wts.call.arg = "arguments"
    /\ wts.call.on.items = [k \in Keys |->
                              IF k = "a" THEN Group([j \in {"b"} |-> Leaf(15)])
                              ELSE Group(<<>>)]
    /\ wts.call.result.items["a"].items["b"].key_chain = <<"a", "b">>
    /\ wts.call.result.items["b"] = Dict(<<>>)

\* The object the key before the first key that cannot be resolved leads to.
Unresolved(d, key_chain) ==
    LET i == CHOOSE i \in 1..Len(key_chain) :
                /\ ~Resolvable(d, SubSeq(key_chain, 1, i))
                /\ Resolvable(d, SubSeq(key_chain, 1, i - 1))
    IN  Manual(d, SubSeq(key_chain, 1, i - 1))

\* C13 as stated: walk_key_chain returns what the manual traversal reaches,
\* and raises a key-error for every chain with a key that is not there at
\* its level.
C13_LookupKeyError ==
    wts.call.op = "walk_key_chain" =>
        IF Resolvable(wts.call.on, wts.call.arg)
        THEN wts.call.result = Manual(wts.call.on, wts.call.arg)
        ELSE wts.call.result = Exception("KeyError")

\* C13 amended: walk_key_chain returns what the manual traversal reaches;
\* it raises a key-error when the first key that cannot be resolved is
\* absent from a mapping, and the error of indexing a leaf (TypeError for a
\* number, IndexError for an array), not a key-error, when the chain goes
\* on below a leaf.
C13_LookupKeyErrorInMapping ==
    wts.call.op = "walk_key_chain" =>
        IF Resolvable(wts.call.on, wts.call.arg)
        THEN wts.call.result = Manual(wts.call.on, wts.call.arg)
        ELSE IF has_items(Unresolved(wts.call.on, wts.call.arg))
        THEN wts.call.result = Exception("KeyError")
        ELSE wts.call.result =
                Exception(IF Unresolved(wts.call.on, wts.call.arg).kind = "array"
                          THEN "IndexError" ELSE "TypeError")

\* The lookup has raised a key-error for a chain of three keys whose second
\* key is absent from the group the first leads to.
C13_Witness ==
    /\ wts.call.op = "walk_key_chain"
    /\ Len(wts.call.arg) = 3
    /\ Resolvable(wts.call.on, SubSeq(wts.call.arg, 1, 1))
    /\ has_items(Manual(wts.call.on, SubSeq(wts.call.arg, 1, 1)))
    /\ ~Resolvable(wts.call.on, SubSeq(wts.call.arg, 1, 2))
    /\ wts.call.result = Exception("KeyError")

\* C14: with every named weights file there, load_weights returns the
\* loaded mapping of the name when one name is given, and otherwise the
\* list of the loaded mappings in the order of the names.
C14_LoadWeightsShape ==
    (/\ wts.call.op = "load_weights"
     /\ \A i \in 1..Len(wts.call.arg) : wts.call.on[weights_path(wts.call.arg[i])] # Absent)
    => IF Len(wts.call.arg) = 1
       THEN wts.call.result = walk(wts.call.on[weights_path(wts.call.arg[1])], "np.array", None)
       ELSE /\ wts.call.result.kind = "list"
            /\ Len(wts.call.result.items) = Len(wts.call.arg)
            /\ \A i \in 1..Len(wts.call.arg) :
                  wts.call.result.items[i] =
                     walk(wts.call.on[weights_path(wts.call.arg[i])], "np.array", None)

\* The stage of the split an event of the log belongs to: 1 archive,
\* 2 truths (with the retrieval of the annotations by the ILSVRC2012
\* converter), 3 images.
StageOf(e) ==
    IF e.op \in {"skip", "retrieving"} THEN 0
    ELSE IF e.op \in {"skip_truths", "convert_truths"} THEN 2
    ELSE IF e.op \in {"skip_images", "collect_image_files", "rmtree"} THEN 3
    ELSE IF e.path \in {annotations_path, "ILSVRC2012/annotations.tar.gz"} THEN 2
    ELSE 1

\* The log of the split goes through the stages in their order, and a
\* split that was skipped has no stage.
StageOrder ==
    /\ \A i, j \in DOMAIN events : i < j => StageOf(events[i]) <= StageOf(events[j])
    /\ (events # <<>> /\ events[1].op = "skip") => Len(events) = 1

\* C15: a split whose truths file and images directory both exist is
\* skipped with no stage run; any other split starts with the archive
\* stage and goes through archive, truths, images in this order; the
\* truths converter is called only with the truths file absent and the
\* archive stage finished, the image collection only with the images
\* directory absent and the truths stage finished.
C15_StageMachine ==
    [][/\ (dpc = "loop" /\ todo # <<>>) =>
            IF /\ disk.truths[datatype_directory(ds, Head(todo))].exists
               /\ disk.images[datatype_directory(ds, Head(todo))].exists
            THEN /\ dpc' = "loop"
                 /\ disk' = disk
                 /\ rpc' = "none"
                 /\ events' = <<Event("skip", datatype_directory(ds, Head(todo)))>>
            ELSE /\ dpc' = "archive"
                 /\ rpc' = "check"
                 /\ rdir' = compressed_directory(ds, Head(todo))
                 /\ disk' = disk
       /\ StageOrder'
       /\ (dpc # "none" /\ ~Logged("convert_truths", Key) /\ Logged("convert_truths", Key)') =>
            /\ ~disk.truths[Key].exists
            /\ dpc = "archive" /\ rpc = "done" /\ rdir = compressed_directory(ds, cur)
            /\ \/ Logged("not_downloading", compressed_directory(ds, cur))
               \/ Logged("remove", compressed_directory(ds, cur))
       /\ (dpc # "none" /\ ~Logged("collect_image_files", Key)
              /\ Logged("collect_image_files", Key)') =>
            /\ ~disk.images[Key].exists
            /\ dpc = "images"
            /\ disk.truths[Key].exists
            /\ Logged("skip_truths", Key) \/ Logged("convert_truths", Key)]_vars

\* A split has gone through all its stages: its archive downloaded,
\* extracted and deleted, its truths converted, its images collected and
\* moved, the staging directory deleted.
C15_Witness ==
    /\ dpc = "loop"
    /\ cur # "none"
    /\ Before(Event("retrieving", Key), Event("extract", compressed_directory(ds, cur)))
    /\ Before(Event("remove", compressed_directory(ds, cur)), Event("convert_truths", Key))
    /\ Before(Event("convert_truths", Key), Event("collect_image_files", Key))
    /\ Before(Event("collect_image_files", Key), Event("rmtree", compressed_directory(ds, cur)))

\* C16: when the images stage is to compare the image filenames of a split
\* with the truths keys, the truths it holds are the ground-truth mapping
\* of that split, as its (wholly written) truths file holds it.
C16_TruthsOfSameSplit ==
    (dpc = "images" /\ ~disk.images[Key].exists /\ disk.truths[Key].ok)
        => truths.bound /\ truths.keys = disk.truths[Key].keys

\* C17: when __download_dataset has gone through the stages of a split
\* without failure, neither the staging directory of the split nor its
\* archive file is on disk; and the staging directory is deleted only once
\* every image file has been moved into the images directory.
C17_StagingLifecycle ==
    [][/\ (dpc \in {"images", "moving"} /\ dpc' = "loop") =>
            /\ ~disk'.dir[compressed_directory(ds, cur)].exists
            /\ disk'.file[tar_path(compressed_directory(ds, cur))] = "absent"
       /\ \A s \in Range(VocSplits) :
            (/\ disk.dir[compressed_directory("VOC2012", s)].exists
             /\ ~disk'.dir[compressed_directory("VOC2012", s)].exists)
            => /\ dpc = "moving" /\ cur = s /\ tomove = {}
               /\ disk.dir[compressed_directory("VOC2012", s)].img = {}
               /\ disk.images[datatype_directory("VOC2012", s)].exists]_vars

\* C18: once the truths file of a split exists no step of any run changes
\* or deletes it, and the truths are dumped only to a file that is not
\* there.
C18_TruthsBuiltOnce ==
    [][/\ \A k \in SplitKeys :
            disk.truths[k].exists => disk'.truths[k] = disk.truths[k]
       /\ dpc = "dump" => ~disk.truths[Key].exists]_vars

\* A later run has skipped the truths stage of a split whose truths file
\* an earlier run has written.
C18_Witness ==
    /\ dpc = "images"
    /\ Logged("skip_truths", Key)
    /\ disk.truths[Key].ok
    /\ disk.truths[Key].keys # {}

====
